---------------------------- MODULE Spec2Model ----------------------------
(***************************************************************************)
(* A model of rpmautospec's commit-history analysis engine:                *)
(* PkgHistoryProcessor._run_on_history with the two visitors               *)
(* release_number_visitor and changelog_visitor                            *)
(* (src/rpmautospec/pkg_history.py).                                       *)
(*                                                                         *)
(* A commit is a number; a commit's parents have smaller numbers, so the   *)
(* history is a DAG, and the head of the run is the largest commit.  A     *)
(* tree is a function from paths (sequences of path components) to blob    *)
(* ids.  The git repository and the rpm query tool are inputs, drawn in    *)
(* the initial state and never changed.                                    *)
(***************************************************************************)
EXTENDS Integers, Sequences, FiniteSets, TLC

\* Bound of the model: the number of commits of a history.
MaxCommits == 4

VARIABLES
    parents,        \* commit.parents: commit -> sequence of commits
    tree,           \* commit.tree: commit -> (path -> blob id)
    message,        \* commit.message's first line, a sequence of characters
    pc,             \* where _run_on_history stands
    branch_heads,   \* work list of the discovery pass
    branches,       \* the branches found (lists of commits, new -> old)
    commit,         \* the local variable `commit` of the discovery pass
    commit_coroutines,                 \* commit -> its visitors' coroutines
    commit_coroutines_must_continue,   \* commit -> what their phase 1 yielded
    branch,         \* the local variable `branch` of the resolution pass
    visited_results,                   \* commit -> CommitResult
    calls           \* commit -> how often next() and send() ran, per visitor

vars == <<parents, tree, message, pc, branch_heads, branches, commit,
          commit_coroutines, commit_coroutines_must_continue, branch,
          visited_results, calls>>

-----------------------------------------------------------------------------
(* Python values *)

\* Python's None for an optional value, and a present value.
None == <<>>
Some(x) == <<x>>
IsNone(o) == o = <<>>
Val(o) == o[1]

Last(s) == s[Len(s)]
Front(s) == SubSeq(s, 1, Len(s) - 1)
Range(s) == {s[i] : i \in DOMAIN s}

\* The empty mapping.
EmptyMap == [x \in {} |-> x]

\* pygit2 objects: an Oid and a Commit are values of different types.
Oid(c) == [type |-> "Oid", hex |-> c]
CommitObject(c) == [type |-> "Commit", id |-> Oid(c)]


-----------------------------------------------------------------------------
(* The repository: paths, blobs, trees *)

\* self.name, and the name of the spec file, f"{self.name}.spec".
PkgName == "pkg"
SpecFileName == <<"pkg.spec">>
ChangelogFileName == <<"changelog">>

\* PkgHistoryProcessor.changelog_ignore_patterns; a pattern, like a path, is
\* the sequence of its components between the slashes.
changelog_ignore_patterns ==
    << <<".gitignore">>, <<"gating.yaml">>, <<"sources">>, <<"tests", "*">> >>

\* fnmatchcase that takes the star for a character of the name.
fnmatchcase_literal(f, pat) == f = pat

\* fnmatch.fnmatchcase(f, pat) for the patterns above: a pattern without a
\* wildcard matches the whole path only, and "tests/*" matches every path
\* that starts with "tests/" (the star also matches slashes).
fnmatchcase(f, pat) ==
    IF Last(pat) = "*"
    THEN /\ Len(f) >= Len(pat)
         /\ SubSeq(f, 1, Len(pat) - 1) = Front(pat)
    ELSE f = pat

\* tree[path], with None for the KeyError of a missing path.
TreeGet(t, path) == IF path \in DOMAIN t THEN Some(t[path]) ELSE None

\* The contents of a spec file, as far as `rpm --specfile` can tell: whether
\* the query succeeds, the first line of its output (epoch-version), and the
\* second (the release field, with %autorelease expanded to
\* E<extraver>_S<snapinfo>_P<0|1>_B<base>, or anything else).
SpecBlob(ok, ev, autorel, e, s, p, b) ==
    [kind |-> "spec", rpm_ok |-> ok, epoch_version |-> ev,
     autorelease |-> autorel, extraver |-> e, snapinfo |-> s,
     prerelease |-> p, base |-> b]

\* A changelog file or any other file: its text.
TextBlob(text) == [kind |-> "text", data |-> text]

\* A tree made of an optional spec file, an optional changelog file and other
\* files (a function from paths to blobs).
Tree(spec, chlog, others) ==
    (IF IsNone(spec) THEN EmptyMap ELSE SpecFileName :> Val(spec))
    @@ (IF IsNone(chlog) THEN EmptyMap ELSE ChangelogFileName :> Val(chlog))
    @@ others

\* parent.tree.diff_to_tree(commit.tree) followed by _files_changed_in_diff:
\* the paths whose blob differs between the two trees, added and deleted
\* paths included.
files_changed_in_diff(old, new) ==
    {p \in (DOMAIN old) \cup (DOMAIN new) : TreeGet(old, p) # TreeGet(new, p)}

\* commit.tree.diff_to_tree(swap=True): the diff against the empty tree.
files_changed_from_empty(new) == files_changed_in_diff(EmptyMap, new)

-----------------------------------------------------------------------------
(* The metadata provider *)

\* int(base) for a string of decimal digits, given as the sequence of its
\* digits.
RECURSIVE IntOfDigits(_)
IntOfDigits(ds) ==
    IF ds = <<>> THEN 0 ELSE 10 * IntOfDigits(Front(ds)) + Last(ds)

\* PkgHistoryProcessor._get_rpmverflags: None when the rpm query fails,
\* otherwise the epoch-version and the %autorelease flags; the flags are all
\* None when the release field does not match autorelease_flags_re.
get_rpmverflags(blob) ==
    IF ~blob.rpm_ok THEN None
    ELSE IF blob.autorelease
    THEN Some([epoch_version |-> blob.epoch_version,
               extraver |-> IF blob.extraver # "" THEN Some(blob.extraver) ELSE None,
               snapinfo |-> IF blob.snapinfo # "" THEN Some(blob.snapinfo) ELSE None,
               prerelease |-> Some(blob.prerelease = "1"),
               base |-> Some(IF blob.base # <<>> THEN IntOfDigits(blob.base) ELSE 1)])
    ELSE Some([epoch_version |-> blob.epoch_version,
               extraver |-> None, snapinfo |-> None,
               prerelease |-> None, base |-> None])

\* PkgHistoryProcessor._get_rpmverflags_for_commit: None when the tree has
\* no spec file.
get_rpmverflags_for_commit(c) ==
    LET specblob == TreeGet(tree[c], SpecFileName)
    IN  IF IsNone(specblob) THEN None ELSE get_rpmverflags(Val(specblob))

-----------------------------------------------------------------------------
(* Result dictionaries *)

\* d[k] = v on a dictionary.
DictSet(d, k, v) == [x \in (DOMAIN d) \cup {k} |-> IF x = k THEN v ELSE d[x]]

\* d.get(k, default)
DictGet(d, k, default) == IF k \in DOMAIN d THEN d[k] ELSE default

\* Python's truth value of an optional string: None and "" are false.
TruthyStr(o) == ~IsNone(o) /\ Val(o) # ""

\* str() of an optional string inside an f-string.
PyStr(o) == IF IsNone(o) THEN "None" ELSE Val(o)

\* The largest number of a sequence of numbers, 0 for the empty sequence:
\* max(..., default=0) over non-negative numbers.
RECURSIVE MaxOf(_)
MaxOf(ns) ==
    IF ns = <<>> THEN 0
    ELSE LET m == MaxOf(Front(ns)) IN IF Last(ns) > m THEN Last(ns) ELSE m

-----------------------------------------------------------------------------
(* release_number_visitor *)

\* release_must_continue that stops where the epoch-version is unknown.
release_must_continue_known_only(epoch_version, epoch_versions_to_check) ==
    /\ TruthyStr(epoch_version)
    /\ Val(epoch_version) \in epoch_versions_to_check

\* The must_continue of release_number_visitor: True without epoch-version,
\* otherwise whether a parent has the commit's epoch-version.
release_must_continue(epoch_version, epoch_versions_to_check) ==
    IF ~TruthyStr(epoch_version) THEN TRUE
    ELSE Val(epoch_version) \in epoch_versions_to_check

\* The part of release_number_visitor before its first yield: the arguments
\* and locals the coroutine keeps, and the must_continue it yields.
release_number_phase1(c, children_must_continue) ==
    LET verflags == get_rpmverflags_for_commit(c)
        epoch_version ==
            IF ~IsNone(verflags) THEN Some(Val(verflags).epoch_version) ELSE None
        prerelease ==
            IF ~IsNone(verflags) THEN Val(verflags).prerelease ELSE None
        base ==
            IF ~IsNone(verflags) /\ ~IsNone(Val(verflags).base)
            THEN Val(Val(verflags).base) ELSE 1
        tag_string ==
            IF ~IsNone(verflags)
            THEN (IF TruthyStr(Val(verflags).extraver)
                  THEN "." \o Val(Val(verflags).extraver) ELSE "")
                 \o (IF TruthyStr(Val(verflags).snapinfo)
                     THEN "." \o Val(Val(verflags).snapinfo) ELSE "")
            ELSE ""
        epoch_versions_to_check ==
            {Val(get_rpmverflags_for_commit(parents[c][i])).epoch_version :
                i \in {j \in DOMAIN parents[c] :
                         ~IsNone(get_rpmverflags_for_commit(parents[c][j]))}}
        must_continue ==
            release_must_continue(epoch_version, epoch_versions_to_check)
    IN  [visitor |-> "release_number", state |-> "suspended",
         children_must_continue |-> children_must_continue,
         epoch_version |-> epoch_version, prerelease |-> prerelease,
         base |-> base, tag_string |-> tag_string,
         must_continue |-> must_continue]

\* release_number_of without the increment.
release_number_of_not_incremented(epoch_version, parent_results) ==
    MaxOf([i \in DOMAIN parent_results |->
            LET res == parent_results[i]
            IN  IF DOMAIN res # {} /\ epoch_version = res["epoch-version"]
                THEN res["release-number"] ELSE 0])

\* release_number_of that counts the parents of every epoch-version.
release_number_of_any_version(epoch_version, parent_results) ==
    MaxOf([i \in DOMAIN parent_results |->
            LET res == parent_results[i]
            IN  IF DOMAIN res # {} THEN res["release-number"] ELSE 0]) + 1

\* release_number_of looking at the first parent's result only.
release_number_of_first_parent(epoch_version, parent_results) ==
    (IF parent_results # <<>>
        /\ DOMAIN parent_results[1] # {}
        /\ epoch_version = parent_results[1]["epoch-version"]
     THEN parent_results[1]["release-number"] ELSE 0) + 1

\* The release number of a commit from its parents' results: one more than
\* the largest release number of a parent result with the same
\* epoch-version.
release_number_of(epoch_version, parent_results) ==
    MaxOf([i \in DOMAIN parent_results |->
            LET res == parent_results[i]
            IN  IF DOMAIN res # {} /\ epoch_version = res["epoch-version"]
                THEN res["release-number"] ELSE 0]) + 1

\* release_complete_of without the "- 1" of release_number_with_base.
release_complete_of_base_added(co, release_number) ==
    LET prerel_str ==
            IF ~IsNone(co.prerelease) /\ Val(co.prerelease) THEN "0." ELSE ""
        release_number_with_base == release_number + co.base
    IN  prerel_str \o ToString(release_number_with_base) \o co.tag_string

\* f"{prerel_str}{release_number_with_base}{tag_string}"
release_complete_of(co, release_number) ==
    LET prerel_str ==
            IF ~IsNone(co.prerelease) /\ Val(co.prerelease) THEN "0." ELSE ""
        release_number_with_base == release_number + co.base - 1
    IN  prerel_str \o ToString(release_number_with_base) \o co.tag_string

\* release_number_phase2 that also notes in the result of every parent that
\* it has been counted.
release_number_phase2_marking_parents(co, commit_result, parent_results) ==
    LET release_number == release_number_of(co.epoch_version, parent_results)
        r1 == DictSet(commit_result, "epoch-version", co.epoch_version)
        r2 == DictSet(r1, "release-number", release_number)
        r3 == DictSet(r2, "release-complete",
                      release_complete_of(co, release_number))
    IN  [raised |-> FALSE, result |-> r3,
         parent_results |->
            [i \in DOMAIN parent_results |->
                IF DOMAIN parent_results[i] # {}
                THEN DictSet(parent_results[i], "counted", TRUE)
                ELSE parent_results[i]]]

\* The part of release_number_visitor after its first yield, resumed with
\* send((commit_result, parent_results)): the commit_result it yields.
release_number_phase2(co, commit_result, parent_results) ==
    LET release_number == release_number_of(co.epoch_version, parent_results)
        r1 == DictSet(commit_result, "epoch-version", co.epoch_version)
        r2 == DictSet(r1, "release-number", release_number)
        r3 == DictSet(r2, "release-complete",
                      release_complete_of(co, release_number))
    IN  [raised |-> FALSE, result |-> r3, parent_results |-> parent_results]

-----------------------------------------------------------------------------
(* changelog_visitor *)

\* Python's == between two pygit2 objects: objects of different types are
\* never equal (both sides answer NotImplemented), objects of one type are
\* equal when their ids are.
PyEq(a, b) == a.type = b.type /\ a = b

\* The first parent whose tree is the commit's tree, None when there is none
\* (the for ... else loop of the merge case).
RECURSIVE first_same_tree(_, _)
first_same_tree(c, ps) ==
    IF ps = <<>> THEN None
    ELSE IF tree[c] = tree[Head(ps)] THEN Some(Head(ps))
    ELSE first_same_tree(c, Tail(ps))

\* changelog_changed_of that takes the changelog file of a root commit for
\* unchanged.
changelog_changed_of_parents_only(c, changelog_blob) ==
    /\ parents[c] # <<>>
    /\ \A i \in DOMAIN parents[c] :
          changelog_blob # TreeGet(tree[parents[c][i]], ChangelogFileName)

\* changelog_changed: the changelog file differs from that of every parent,
\* or is present in a root commit.
changelog_changed_of(c, changelog_blob) ==
    IF parents[c] # <<>>
    THEN \A i \in DOMAIN parents[c] :
            changelog_blob # TreeGet(tree[parents[c][i]], ChangelogFileName)
    ELSE ~IsNone(changelog_blob)

\* changelog_must_continue that does not look at the spec file.
changelog_must_continue_without_specfile(changelog_changed, merge_unresolvable, specfile_present, children_must_continue) ==
    /\ ~(changelog_changed \/ merge_unresolvable)
    /\ children_must_continue

\* changelog_must_continue that does not look at the children.
changelog_must_continue_without_children(changelog_changed, merge_unresolvable, specfile_present, children_must_continue) ==
    /\ ~(changelog_changed \/ merge_unresolvable)
    /\ specfile_present

\* The must_continue of changelog_visitor.
changelog_must_continue(changelog_changed, merge_unresolvable, specfile_present, children_must_continue) ==
    /\ ~(changelog_changed \/ merge_unresolvable)
    /\ specfile_present
    /\ children_must_continue

\* The part of changelog_visitor before its first yield: the arguments and
\* locals the coroutine keeps, and the must_continue it yields.
changelog_phase1(c, children_must_continue) ==
    LET specfile_present == SpecFileName \in DOMAIN tree[c]
        changelog_blob == TreeGet(tree[c], ChangelogFileName)
        changelog_changed == changelog_changed_of(c, changelog_blob)
        same_tree == first_same_tree(c, parents[c])
        parent_to_follow ==
            IF Len(parents[c]) < 2
            THEN (IF parents[c] # <<>> THEN Some(parents[c][1]) ELSE None)
            ELSE same_tree
        merge_unresolvable ==
            IF Len(parents[c]) < 2 THEN FALSE
            ELSE IF ~IsNone(same_tree) THEN FALSE
            ELSE ~changelog_changed
    IN  [visitor |-> "changelog", state |-> "suspended",
         children_must_continue |-> children_must_continue,
         specfile_present |-> specfile_present,
         changelog_blob |-> changelog_blob,
         changelog_changed |-> changelog_changed,
         parent_to_follow |-> parent_to_follow,
         merge_unresolvable |-> merge_unresolvable,
         must_continue |->
            changelog_must_continue(changelog_changed, merge_unresolvable,
                                    specfile_present, children_must_continue)]

\* The author and the date of a commit, as they are printed in a header.
commit_author(c) == "author" \o ToString(c) \o " <author" \o ToString(c) \o "@example.org>"
commit_date(c) == "day" \o ToString(c)

\* changelog_header: f"* {changelog_date} {changelog_author} {changelog_evr}"
changelog_header(c, commit_result) ==
    LET changelog_evr == PyStr(commit_result["epoch-version"]) \o "-"
                         \o commit_result["release-complete"]
    IN  "* " \o commit_date(c) \o " " \o commit_author(c) \o " " \o changelog_evr

\* Whitespace characters, and str.lstrip(), str.strip() on a sequence of
\* characters.
IsSpace(ch) == ch \in {" ", "\t"}
RECURSIVE lstrip(_)
lstrip(s) == IF s # <<>> /\ IsSpace(Head(s)) THEN lstrip(Tail(s)) ELSE s
RECURSIVE rstrip(_)
rstrip(s) == IF s # <<>> /\ IsSpace(Last(s)) THEN rstrip(Front(s)) ELSE s
strip(s) == rstrip(lstrip(s))

\* commit_subject_of that keeps a leading "-".
commit_subject_of_keep_dash(c) == strip(message[c])

\* The subject of a commit: the first line of its message, stripped, without
\* one leading "-" and the whitespace after it.
commit_subject_of(c) ==
    LET stripped == strip(message[c])
    IN  IF stripped # <<>> /\ Head(stripped) = "-"
        THEN lstrip(Tail(stripped)) ELSE stripped

\* The previous changelog of a merge commit: the loop over parent_results
\* that compares candidate["commit-id"] with parent_to_follow.  raised is
\* the KeyError of a candidate that has no "commit-id" (the empty dictionary
\* of a parent without result).
RECURSIVE previous_changelog_of_merge(_, _)
previous_changelog_of_merge(parent_results, parent_to_follow) ==
    IF parent_results = <<>> THEN [raised |-> FALSE, changelog |-> <<>>]
    ELSE LET candidate == Head(parent_results)
         IN  IF "commit-id" \notin DOMAIN candidate
             THEN [raised |-> TRUE, changelog |-> <<>>]
             ELSE IF PyEq(candidate["commit-id"], CommitObject(parent_to_follow))
             THEN [raised |-> FALSE,
                   changelog |-> DictGet(candidate, "changelog", <<>>)]
             ELSE previous_changelog_of_merge(Tail(parent_results), parent_to_follow)

\* skip_for_changelog: changed_files and all(any(fnmatchcase(f, pat) ...)).
skip_for_changelog(changed_files) ==
    /\ changed_files # {}
    /\ \A f \in changed_files :
          \E i \in DOMAIN changelog_ignore_patterns :
              fnmatchcase(f, changelog_ignore_patterns[i])

\* The entry generated from the commit's message.
generated_entry(c, commit_result) ==
    LET commit_subject == commit_subject_of(c)
        header == changelog_header(c, commit_result)
    IN  IF commit_subject = <<>>
        THEN [commit_id |-> Oid(c), header |-> header,
              subject |-> "RPMAUTOSPEC: empty commit log subject after stripping",
              error |-> "empty commit log subject"]
        ELSE [commit_id |-> Oid(c), header |-> header,
              subject_chars |-> commit_subject]

\* The part of changelog_visitor after its first yield.  raised is the
\* KeyError of changelog_evr when the commit_result sent in has no
\* "epoch-version" or no "release-complete" yet, or that of the merge case.
changelog_phase2(c, co, commit_result, parent_results) ==
    LET header == changelog_header(c, commit_result)
        previous ==
            IF Len(parents[c]) = 1
            THEN [raised |-> FALSE,
                  changelog |-> DictGet(parent_results[1], "changelog", <<>>)]
            ELSE previous_changelog_of_merge(parent_results,
                    IF IsNone(co.parent_to_follow) THEN 0
                    ELSE Val(co.parent_to_follow))
        changed_files ==
            IF ~IsNone(co.parent_to_follow)
            THEN files_changed_in_diff(tree[Val(co.parent_to_follow)], tree[c])
            ELSE files_changed_from_empty(tree[c])
    IN  IF {"epoch-version", "release-complete"} \ DOMAIN commit_result # {}
        THEN [raised |-> TRUE, parent_results |-> parent_results, result |-> commit_result]
        ELSE IF ~co.specfile_present
        THEN [raised |-> FALSE, parent_results |-> parent_results,
              result |-> DictSet(commit_result, "changelog", <<>>)]
        ELSE IF co.merge_unresolvable
        THEN [raised |-> FALSE, parent_results |-> parent_results,
              result |-> DictSet(commit_result, "changelog",
                  << [commit_id |-> Oid(c), header |-> header,
                      subject |-> "RPMAUTOSPEC: unresolvable merge",
                      error |-> "unresolvable merge"] >>)]
        ELSE IF co.changelog_changed
        THEN [raised |-> FALSE, parent_results |-> parent_results,
              result |-> DictSet(commit_result, "changelog",
                  << IF ~IsNone(co.changelog_blob)
                     THEN [commit_id |-> Oid(c),
                           literal |-> Val(co.changelog_blob).data]
                     ELSE [commit_id |-> Oid(c), header |-> header,
                           subject |-> "RPMAUTOSPEC: changelog file removed",
                           error |-> "changelog file removed"] >>)]
        ELSE IF previous.raised
        THEN [raised |-> TRUE, parent_results |-> parent_results, result |-> commit_result]
        ELSE IF ~skip_for_changelog(changed_files)
        THEN [raised |-> FALSE, parent_results |-> parent_results,
              result |-> DictSet(commit_result, "changelog",
                  <<generated_entry(c, commit_result)>> \o previous.changelog)]
        ELSE [raised |-> FALSE, parent_results |-> parent_results,
              result |-> DictSet(commit_result, "changelog", previous.changelog)]

-----------------------------------------------------------------------------
(* Histories *)

\* The commits of the history and the head of the run.
Commits == DOMAIN parents
head == Len(parents)

\* The parent lists a commit c may have: none (a root commit), one older
\* commit, or two distinct older commits in either order (a merge; merges of
\* three and more branches are not modelled).
ParentLists(c) ==
    {<<>>}
    \cup {<<p>> : p \in 1..(c - 1)}
    \cup {pq \in (1..(c - 1)) \X (1..(c - 1)) : pq[1] # pq[2]}

\* The commits repo.walk(h[Len(h)]) yields: the head and its ancestors.
RECURSIVE ReachableFrom(_, _, _)
ReachableFrom(h, c, found) ==
    IF c = 0 THEN found
    ELSE ReachableFrom(h, c - 1,
            IF c \in found THEN found \cup Range(h[c]) ELSE found)
Walk(h) == ReachableFrom(h, Len(h), {Len(h)})

\* The histories of exactly n commits, and those of up to MaxCommits
\* commits that are all reachable from the head.
RECURSIVE HistoriesOfLen(_)
HistoriesOfLen(n) ==
    IF n = 0 THEN {<<>>}
    ELSE {Append(h, ps) : h \in HistoriesOfLen(n - 1), ps \in ParentLists(n)}
Histories ==
    {h \in UNION {HistoriesOfLen(n) : n \in 1..MaxCommits} :
        Walk(h) = DOMAIN h}

\* commit_children that records a commit under its first parent only.
commit_children_first_parent(c) ==
    {d \in Walk(parents) : parents[d] # <<>> /\ parents[d][1] = c}

\* commit_children: the children of a commit among the commits walked.
commit_children(c) == {d \in Walk(parents) : c \in Range(parents[d])}

-----------------------------------------------------------------------------
(* _run_on_history *)

\* The state at the start of _run_on_history, for a repository drawn from
\* the given histories, trees and messages.
InitWith(histories, trees, messages) ==
    /\ parents \in histories
    /\ tree \in [DOMAIN parents -> trees]
    /\ message \in [DOMAIN parents -> messages]
    /\ pc = "branch_heads"
    /\ branch_heads = <<Len(parents)>>
    /\ branches = <<>>
    /\ commit = 0
    /\ commit_coroutines = EmptyMap
    /\ commit_coroutines_must_continue = EmptyMap
    /\ branch = <<>>
    /\ visited_results = EmptyMap
    /\ calls = [c \in DOMAIN parents |-> [next |-> <<0, 0>>, send |-> <<0, 0>>]]

repository == <<parents, tree, message>>

\* The commits that have coroutines.
Discovered == DOMAIN commit_coroutines

\* IsDiscovered that finds no commit.
IsDiscoveredNever(c) == FALSE

\* IsDiscovered looking the commit up in the results instead.
IsDiscoveredInResults(c) == c \in DOMAIN visited_results

\* The test at the top of the inner loop of the discovery pass,
\* `if commit in commit_coroutines`.
IsDiscovered(c) == c \in DOMAIN commit_coroutines

\* while branch_heads: commit = branch_heads.pop(0); branch = [];
\* branches.append(branch)
NextBranchHead ==
    /\ pc = "branch_heads"
    /\ branch_heads # <<>>
    /\ commit' = Head(branch_heads)
    /\ branch_heads' = Tail(branch_heads)
    /\ branches' = Append(branches, <<>>)
    /\ pc' = "discover"
    /\ UNCHANGED <<repository, commit_coroutines,
                   commit_coroutines_must_continue, branch, visited_results,
                   calls>>

\* if commit in commit_coroutines: break
AlreadyDiscovered ==
    /\ pc = "discover"
    /\ IsDiscovered(commit)
    /\ pc' = "branch_heads"
    /\ UNCHANGED <<repository, branch_heads, branches, commit,
                   commit_coroutines, commit_coroutines_must_continue, branch,
                   visited_results, calls>>

\* Whether the children of the commit have all been discovered.
ChildrenDiscovered(c) == commit_children(c) \subseteq Discovered

\* A child of the commit is not discovered yet: put the commit back on
\* branch_heads, drop the branch if it is empty, and break.
DeferDiscovery ==
    /\ pc = "discover"
    /\ ~IsDiscovered(commit)
    /\ commit # head
    /\ ~ChildrenDiscovered(commit)
    /\ branch_heads' = Append(branch_heads, commit)
    /\ branches' = IF Last(branches) = <<>> THEN Front(branches) ELSE branches
    /\ pc' = "branch_heads"
    /\ UNCHANGED <<repository, commit, commit_coroutines,
                   commit_coroutines_must_continue, branch, visited_results,
                   calls>>

\* children_visitors_must_continue that asks the first visitor of the
\* children for every visitor.
children_visitors_must_continue_first_visitor(c) ==
    IF c = head THEN <<TRUE, TRUE>>
    ELSE [vindex \in 1..2 |->
            \E child \in commit_children(c) :
                commit_coroutines_must_continue[child][1]]

\* children_visitors_must_continue: for each visitor, whether a child's
\* coroutine of that visitor wants to continue; True for the head.
children_visitors_must_continue(c) ==
    IF c = head THEN <<TRUE, TRUE>>
    ELSE [vindex \in 1..2 |->
            \E child \in commit_children(c) :
                commit_coroutines_must_continue[child][vindex]]

\* The coroutines of the two visitors for a commit, each run to its first
\* yield by next().
coroutines_for(c) ==
    LET cmc == children_visitors_must_continue(c)
    IN  << release_number_phase1(c, cmc[1]), changelog_phase1(c, cmc[2]) >>

\* new_branches that queues no parent.
new_branches_none(c, discovered) == <<>>

\* The parents of a merge commit, the first excepted, that are not
\* discovered: the new branch heads.
new_branches(c, discovered) ==
    SelectSeq(Tail(parents[c]), LAMBDA p : p \notin discovered)

\* branch_ends that lets a branch end at a root commit only.
branch_ends_at_root_only(coroutines_must_continue, c) == parents[c] = <<>>

\* if not any(coroutines_must_continue) or not commit.parents: break
branch_ends(coroutines_must_continue, c) ==
    \/ ~(\E i \in 1..2 : coroutines_must_continue[i])
    \/ parents[c] = <<>>

\* Discover the commit: append it to the branch, create its coroutines and
\* run their phase 1; then break, or follow the first parent.
Discover ==
    /\ pc = "discover"
    /\ ~IsDiscovered(commit)
    /\ commit = head \/ ChildrenDiscovered(commit)
    /\ LET coroutines == coroutines_for(commit)
           coroutines_must_continue ==
               [i \in 1..2 |-> coroutines[i].must_continue]
           discovered == Discovered \cup {commit}
       IN  /\ branches' = [branches EXCEPT ![Len(branches)] = Append(@, commit)]
           /\ commit_coroutines' = DictSet(commit_coroutines, commit, coroutines)
           /\ commit_coroutines_must_continue' =
                  DictSet(commit_coroutines_must_continue, commit,
                          coroutines_must_continue)
           /\ calls' = [calls EXCEPT ![commit].next =
                            [i \in 1..2 |-> @[i] + 1]]
           /\ IF branch_ends(coroutines_must_continue, commit)
              THEN /\ pc' = "branch_heads"
                   /\ UNCHANGED <<commit, branch_heads>>
              ELSE /\ branch_heads' =
                          branch_heads \o new_branches(commit, discovered)
                   /\ commit' = parents[commit][1]
                   /\ pc' = "discover"
    /\ UNCHANGED <<repository, branch, visited_results>>

\* branch_heads is empty: the discovery pass is over.
DiscoveryDone ==
    /\ pc = "branch_heads"
    /\ branch_heads = <<>>
    /\ pc' = "branches"
    /\ UNCHANGED <<repository, branch_heads, branches, commit,
                   commit_coroutines, commit_coroutines_must_continue, branch,
                   visited_results, calls>>

\* while branches: branch = branches.pop(0)
NextBranch ==
    /\ pc = "branches"
    /\ branches # <<>>
    /\ branch' = Head(branches)
    /\ branches' = Tail(branches)
    /\ pc' = "branch"
    /\ UNCHANGED <<repository, branch_heads, commit, commit_coroutines,
                   commit_coroutines_must_continue, visited_results, calls>>

\* while branch: the branch is empty
BranchDone ==
    /\ pc = "branch"
    /\ branch = <<>>
    /\ pc' = "branches"
    /\ UNCHANGED <<repository, branch_heads, branches, commit,
                   commit_coroutines, commit_coroutines_must_continue, branch,
                   visited_results, calls>>

\* ParentsResolved with the test of commit_coroutines inverted.
ParentsResolvedInverted(c) ==
    \A p \in Range(parents[c]) :
        p \in DOMAIN visited_results \/ p \in DOMAIN commit_coroutines

\* all(p in visited_results or p not in commit_coroutines
\*     for p in commit.parents)
ParentsResolved(c) ==
    \A p \in Range(parents[c]) :
        p \in DOMAIN visited_results \/ p \notin Discovered

\* The commit at the tail of the branch has a discovered parent without
\* result: put the commit and the branch back, and break.
DeferResolution ==
    /\ pc = "branch"
    /\ branch # <<>>
    /\ ~ParentsResolved(Last(branch))
    /\ branches' = Append(branches, branch)
    /\ pc' = "branches"
    /\ UNCHANGED <<repository, branch_heads, commit, commit_coroutines,
                   commit_coroutines_must_continue, branch, visited_results,
                   calls>>

\* parent_results_of that takes the result of the first parent only and the
\* placeholder for the others.
parent_results_of_first_parent(c) ==
    [i \in DOMAIN parents[c] |->
        IF i = 1 THEN DictGet(visited_results, parents[c][i], EmptyMap)
        ELSE EmptyMap]

\* parent_results = [visited_results.get(p, {}) for p in commit.parents]
parent_results_of(c) ==
    [i \in DOMAIN parents[c] |-> DictGet(visited_results, parents[c][i], EmptyMap)]

\* The dictionaries of parent_results are the ones stored in visited_results
\* (visited_results.get(p, {}) hands out the stored object): what a visitor
\* has written into the dictionary of a parent is in the mapping afterwards.
\* The placeholder {} of a parent without result is stored nowhere.
stored_after(c, parent_results) ==
    IF \A i \in DOMAIN parents[c] :
          parent_results[i] = DictGet(visited_results, parents[c][i], EmptyMap)
    THEN visited_results
    ELSE [p \in DOMAIN visited_results |->
            IF \E i \in DOMAIN parents[c] : parents[c][i] = p
            THEN parent_results[CHOOSE i \in DOMAIN parents[c] : parents[c][i] = p]
            ELSE visited_results[p]]

\* visitor.send((commit_result, parent_results)) on a coroutine: a coroutine
\* suspended at its first yield runs its phase 2; one that has already
\* yielded its result ends, which raises StopIteration.
send(c, co, commit_result, parent_results) ==
    IF co.state # "suspended"
    THEN [raised |-> TRUE, result |-> commit_result,
          parent_results |-> parent_results]
    ELSE IF co.visitor = "release_number"
    THEN release_number_phase2(co, commit_result, parent_results)
    ELSE changelog_phase2(c, co, commit_result, parent_results)

\* piped_result with the coroutines taken in the reverse order.
piped_result_reversed(c) ==
    LET pr == parent_results_of(c)
        s2 == send(c, commit_coroutines[c][2], [x \in {"commit-id"} |-> Oid(c)], pr)
        s1 == send(c, commit_coroutines[c][1], s2.result, s2.parent_results)
    IN  IF s2.raised
        THEN [raised |-> TRUE, sent |-> <<0, 1>>, result |-> s2.result,
              parent_results |-> s2.parent_results]
        ELSE [raised |-> s1.raised, sent |-> <<1, 1>>, result |-> s1.result,
              parent_results |-> s1.parent_results]

\* The reduce() over the commit's coroutines, starting from
\* {"commit-id": commit.id}: how many send() calls were made, whether one
\* raised, the result, and the dictionaries of parent_results as the
\* visitors leave them.
piped_result(c) ==
    LET pr == parent_results_of(c)
        s1 == send(c, commit_coroutines[c][1], [x \in {"commit-id"} |-> Oid(c)], pr)
        s2 == send(c, commit_coroutines[c][2], s1.result, s1.parent_results)
    IN  IF s1.raised
        THEN [raised |-> TRUE, sent |-> <<1, 0>>, result |-> s1.result,
              parent_results |-> s1.parent_results]
        ELSE [raised |-> s2.raised, sent |-> <<1, 1>>, result |-> s2.result,
              parent_results |-> s2.parent_results]

\* Take the commit at the tail of the branch and run phase 2 of its
\* visitors; an exception of a visitor ends the run.
Resolve ==
    /\ pc = "branch"
    /\ branch # <<>>
    /\ ParentsResolved(Last(branch))
    /\ \E c \in {Last(branch)} : \E piped \in {piped_result(c)} :
           /\ branch' = Front(branch)
           /\ calls' = [calls EXCEPT ![c].send =
                            [i \in 1..2 |-> @[i] + piped.sent[i]]]
           /\ commit_coroutines' =
                  [commit_coroutines EXCEPT ![c] =
                      [i \in 1..2 |->
                          IF piped.sent[i] = 1 /\ @[i].state = "suspended"
                          THEN [@[i] EXCEPT !.state = "yielded"]
                          ELSE @[i]]]
           /\ IF piped.raised
              THEN /\ pc' = "raised"
                   /\ visited_results' = stored_after(c, piped.parent_results)
              ELSE /\ pc' = "branch"
                   /\ visited_results' =
                          DictSet(stored_after(c, piped.parent_results),
                                  c, piped.result)
    /\ UNCHANGED <<repository, branch_heads, branches, commit,
                   commit_coroutines_must_continue>>

\* branches is empty: return visited_results
Return ==
    /\ pc = "branches"
    /\ branches = <<>>
    /\ pc' = "done"
    /\ UNCHANGED <<repository, branch_heads, branches, commit,
                   commit_coroutines, commit_coroutines_must_continue, branch,
                   visited_results, calls>>

\* run that returns the result of the oldest commit.
run_oldest(all_results) ==
    IF all_results THEN [raised |-> FALSE, value |-> visited_results]
    ELSE IF 1 \in DOMAIN visited_results
    THEN [raised |-> FALSE, value |-> visited_results[1]]
    ELSE [raised |-> TRUE, value |-> EmptyMap]

\* PkgHistoryProcessor.run once _run_on_history has returned: the whole
\* mapping, or visited_results[head]; raised is the KeyError of a head
\* without result.
run(all_results) ==
    IF all_results THEN [raised |-> FALSE, value |-> visited_results]
    ELSE IF head \in DOMAIN visited_results
    THEN [raised |-> FALSE, value |-> visited_results[head]]
    ELSE [raised |-> TRUE, value |-> EmptyMap]

Next ==
    \/ NextBranchHead
    \/ AlreadyDiscovered
    \/ DeferDiscovery
    \/ Discover
    \/ DiscoveryDone
    \/ NextBranch
    \/ BranchDone
    \/ DeferResolution
    \/ Resolve
    \/ Return

-----------------------------------------------------------------------------
(* Repositories *)

\* Spec files: version 1.0 and version 2.0, both with a plain %autorelease.
SpecV1 == SpecBlob(TRUE, "1.0", TRUE, "", "", "0", <<>>)
SpecV2 == SpecBlob(TRUE, "2.0", TRUE, "", "", "0", <<>>)

\* A changelog file.
ChangelogA == TextBlob("* manual changelog A")

\* A commit message.
MessageFix == <<"f", "i", "x">>

\* The trees of the histories of Spec: a spec file of either version, and
\* one with a changelog file beside it.
TreesWalk ==
    { Tree(Some(SpecV1), None, EmptyMap),
      Tree(Some(SpecV2), None, EmptyMap),
      Tree(Some(SpecV1), Some(ChangelogA), EmptyMap) }

\* Two histories of six commits: a chain of five commits and a merge of its
\* fifth and its third commit, with either parent first.
MergeHistories ==
    { << <<>>, <<1>>, <<2>>, <<3>>, <<4>>, <<5, 3>> >>,
      << <<>>, <<1>>, <<2>>, <<3>>, <<4>>, <<3, 5>> >> }

Init == InitWith(Histories \cup MergeHistories, TreesWalk, {MessageFix})

Spec == Init /\ [][Next]_vars

\* The walker is a sequential program: it always takes its next step.
FairSpec == Spec /\ WF_vars(Next)

\* The histories of fewer than MaxCommits commits.
ShortHistories == {h \in Histories : Len(h) < MaxCommits}

\* Spec files of version 1.0 that differ in the release field: %autorelease
\* with all its flags (-p, -e rc1, -s git5, -b 3), %autorelease with a
\* snapshot and the base 12, a release field that does not use %autorelease,
\* and a spec file rpm cannot query.
SpecAllFlags == SpecBlob(TRUE, "1.0", TRUE, "rc1", "git5", "1", <<3>>)
SpecSnapshot == SpecBlob(TRUE, "1.0", TRUE, "", "git5", "0", <<1, 2>>)
SpecManualRelease == SpecBlob(TRUE, "1.0", FALSE, "", "", "0", <<>>)
SpecBroken == SpecBlob(FALSE, "", FALSE, "", "", "0", <<>>)

\* The trees of the histories of SpecRelease: each of these spec files, a
\* plain one, and no spec file.
TreesRelease ==
    { Tree(Some(SpecV1), None, EmptyMap),
      Tree(Some(SpecAllFlags), None, EmptyMap),
      Tree(Some(SpecSnapshot), None, EmptyMap),
      Tree(Some(SpecManualRelease), None, EmptyMap),
      Tree(Some(SpecBroken), None, EmptyMap),
      Tree(None, None, EmptyMap) }

InitRelease == InitWith(ShortHistories, TreesRelease, {MessageFix})

SpecRelease == InitRelease /\ [][Next]_vars

\* Other files of a tree.
FileSources == <<"sources">> :> TextBlob("SHA512 (pkg-1.0.tar.gz)")
FilesIgnored ==
    <<"sources">> :> TextBlob("SHA512 (pkg-1.0.tar.gz)")
    @@ <<"tests", "smoke", "run.sh">> :> TextBlob("run")
    @@ <<"gating.yaml">> :> TextBlob("rules")
    @@ <<".gitignore">> :> TextBlob("*.rpm")
FilesNotIgnored ==
    <<"sources">> :> TextBlob("SHA512 (pkg-1.0.tar.gz)")
    @@ <<"patches", "sources">> :> TextBlob("fix")

\* The trees of the histories of SpecChangelog: the spec file alone, with
\* files that match an ignore pattern, with a file that matches none, with
\* a changelog file, a spec file of another version, and no spec file.
TreesChangelog ==
    { Tree(Some(SpecV1), None, EmptyMap),
      Tree(Some(SpecV1), None, FileSources),
      Tree(Some(SpecV1), None, FilesIgnored),
      Tree(Some(SpecV1), None, FilesNotIgnored),
      Tree(Some(SpecV1), Some(ChangelogA), EmptyMap),
      Tree(Some(SpecV2), None, FileSources),
      Tree(None, None, FileSources) }

InitChangelog == InitWith(ShortHistories, TreesChangelog, {MessageFix})

SpecChangelog == InitChangelog /\ [][Next]_vars

\* The trees of the histories of SpecMerge: three different trees without
\* changelog file, two of them with the same spec file.
TreesMerge ==
    { Tree(Some(SpecV1), None, EmptyMap),
      Tree(Some(SpecV1), None, FileSources),
      Tree(Some(SpecV2), None, EmptyMap) }

InitMerge == InitWith(Histories, TreesMerge, {MessageFix})

\* The walker on these histories, taking its next step whenever it has one.
SpecMerge == InitMerge /\ [][Next]_vars /\ WF_vars(Next)

\* First lines of commit messages: an empty line, a line of blanks around
\* a single "-", and a line of two "-".
MessageEmpty == <<>>
MessageBlankDash == <<" ", "-", "\t">>
MessageDashes == <<"-", "-">>
Messages == {MessageEmpty, MessageBlankDash, MessageDashes}

\* The trees of the histories of SpecSubject: a spec file, alone and with a
\* changelog file.
TreesSubject ==
    { Tree(Some(SpecV1), None, EmptyMap),
      Tree(Some(SpecV1), Some(ChangelogA), EmptyMap) }

InitSubject == InitWith(ShortHistories, TreesSubject, Messages)

SpecSubject == InitSubject /\ [][Next]_vars

\* The trees of the histories of SpecVersions: spec files of two versions,
\* a spec file rpm cannot query, and no spec file.
TreesVersions ==
    { Tree(Some(SpecV1), None, EmptyMap),
      Tree(Some(SpecV2), None, EmptyMap),
      Tree(Some(SpecBroken), None, EmptyMap),
      Tree(None, None, FileSources) }

InitVersions == InitWith(ShortHistories, TreesVersions, {MessageFix})

SpecVersions == InitVersions /\ [][Next]_vars

-----------------------------------------------------------------------------
(* Claims *)

\* The run has ended: _run_on_history has returned, or an exception of a
\* visitor has ended it.
Terminated == pc \in {"done", "raised"}

\* C1: for every history, every head and the visitors (release_number_visitor,
\* changelog_visitor), the run terminates: the discovery loop and the
\* resolution loop each come to an empty work list after finitely many
\* steps.
C1_RunTerminates == <>Terminated

\* The commits that have a result, and the fields of a result.
Resolved == DOMAIN visited_results
ReleaseNumber(c) == visited_results[c]["release-number"]
ReleaseComplete(c) == visited_results[c]["release-complete"]
Changelog(c) == visited_results[c]["changelog"]

\* The resolution pass has begun.
InResolutionPass == pc \in {"branches", "branch", "done", "raised"}

\* C2: in the resolution pass, phase 2 of a commit is executed only when
\* every parent of it that was discovered has a result already; a commit
\* without parents at the tail of the branch is resolved at once, never
\* deferred.
C2_ResolvedAfterDiscoveredParents ==
    /\ \A c \in Commits :
          calls[c].send # <<0, 0>> =>
              \A p \in Range(parents[c]) :
                  p \in Discovered => p \in Resolved /\ p # c
    /\ (pc = "branch" /\ branch # <<>> /\ parents[Last(branch)] = <<>>) =>
          (ENABLED Resolve) /\ ~(ENABLED DeferResolution)

\* A commit with a discovered parent and a commit with an undiscovered
\* parent have both been resolved, and so have a root commit and a merge
\* commit with both its parents.
C2_Witness ==
    /\ \E c \in Resolved : \E p \in Range(parents[c]) : p \in Discovered
    /\ \E c \in Resolved : \E p \in Range(parents[c]) : p \notin Discovered
    /\ \E c \in Resolved : parents[c] = <<>>
    /\ \E c \in Resolved : Len(parents[c]) = 2 /\ Range(parents[c]) \subseteq Resolved

\* C3: within a run, phase 1 of each visitor runs exactly once for a commit
\* that is discovered (and not at all for another commit), phase 2 at most
\* once, never before phase 1 and never before the discovery pass has ended;
\* a commit with a result has had phase 2 of both visitors exactly once, so
\* its result was computed once.
C3_PhasesOnce ==
    \A c \in Commits :
        /\ calls[c].next = (IF c \in Discovered THEN <<1, 1>> ELSE <<0, 0>>)
        /\ \A i \in 1..2 :
              /\ calls[c].send[i] <= 1
              /\ calls[c].send[i] = 1 =>
                    /\ calls[c].next[i] = 1
                    /\ InResolutionPass
                    /\ branch_heads = <<>>
        /\ c \in Resolved => calls[c].send = <<1, 1>> /\ c \in Discovered
        /\ commit_coroutines_must_continue # <<>> =>
              (c \in Discovered <=> c \in DOMAIN commit_coroutines_must_continue)

\* A commit with two children, reached along two branches, has been
\* discovered and resolved, while another commit is discovered and not
\* resolved yet.
C3_Witness ==
    /\ \E c \in Resolved : Cardinality(commit_children(c)) = 2
    /\ \E c \in Discovered : c \notin Resolved

\* The epoch-version of a commit, read from its spec file: None when there
\* is no spec file or rpm cannot query it.
EpochVersionOf(c) ==
    IF SpecFileName \in DOMAIN tree[c] /\ tree[c][SpecFileName].rpm_ok
    THEN Some(tree[c][SpecFileName].epoch_version)
    ELSE None

\* The parents of a commit that have its epoch-version.
SameVersionParents(c) ==
    {p \in Range(parents[c]) : EpochVersionOf(p) = EpochVersionOf(c)}

\* C4: for every commit with a result, the release number is at least 1 and
\* greater than the release number of every parent that has the commit's
\* epoch-version (such a parent has a result).
C4_ReleaseNumberIncreases ==
    \A c \in Resolved :
        /\ ReleaseNumber(c) >= 1
        /\ \A p \in SameVersionParents(c) :
              p \in Resolved /\ ReleaseNumber(c) > ReleaseNumber(p)

\* A commit with a result has a parent of its epoch-version whose release
\* number is greater than 1, and a parent of another epoch-version.
C4_Witness ==
    \E c \in Resolved :
        /\ \E p \in SameVersionParents(c) : p \in Resolved /\ ReleaseNumber(p) > 1
        /\ \E p \in Range(parents[c]) : p \notin SameVersionParents(c)

\* C5: for every commit with a result of which exactly one parent has the
\* commit's epoch-version, that parent has been discovered and resolved and
\* the commit's release number is the parent's plus one.
C5_OneParentPlusOne ==
    \A c \in Resolved :
        Cardinality(SameVersionParents(c)) = 1 =>
            \A p \in SameVersionParents(c) :
                /\ p \in Discovered
                /\ p \in Resolved
                /\ ReleaseNumber(c) = ReleaseNumber(p) + 1

\* A merge commit with a result has one parent of its epoch-version, not its
\* first parent, and the changelog visitor did not want to continue there.
C5_Witness ==
    \E c \in Resolved :
        /\ Len(parents[c]) = 2
        /\ SameVersionParents(c) = {parents[c][2]}
        /\ ~commit_coroutines_must_continue[c][2]
        /\ ReleaseNumber(c) = 3

\* The largest number of a finite set of numbers, 0 for the empty set.
SetMax(S) == IF S = {} THEN 0 ELSE CHOOSE m \in S : \A n \in S : n <= m

\* C6: for every commit with a result, the release number is one more than
\* the largest release number of the parents that have the commit's
\* epoch-version, and 1 when no parent has it.
C6_ReleaseNumberIsMaxPlusOne ==
    \A c \in Resolved :
        /\ SameVersionParents(c) \subseteq Resolved
        /\ ReleaseNumber(c) =
              1 + SetMax({ReleaseNumber(p) : p \in SameVersionParents(c)})

\* A merge commit whose parents have its epoch-version and the release
\* numbers 3 and 5 has the release number 6.
C6_Witness ==
    \E c \in Resolved :
        /\ Len(parents[c]) = 2
        /\ SameVersionParents(c) = Range(parents[c])
        /\ {ReleaseNumber(p) : p \in SameVersionParents(c)} = {3, 5}
        /\ ReleaseNumber(c) = 6

\* The spec file of a commit that rpm can query and whose release field is
\* %autorelease: the only one that sets flags.
HasFlags(c) ==
    /\ SpecFileName \in DOMAIN tree[c]
    /\ tree[c][SpecFileName].rpm_ok
    /\ tree[c][SpecFileName].autorelease

\* The release-complete a commit must have, given its release number.
ExpectedReleaseComplete(c, release_number) ==
    LET flags == tree[c][SpecFileName]
        prerelease == HasFlags(c) /\ flags.prerelease = "1"
        base == IF HasFlags(c) /\ flags.base # <<>>
                THEN IntOfDigits(flags.base) ELSE 1
        extraver == IF HasFlags(c) /\ flags.extraver # ""
                    THEN "." \o flags.extraver ELSE ""
        snapinfo == IF HasFlags(c) /\ flags.snapinfo # ""
                    THEN "." \o flags.snapinfo ELSE ""
    IN  (IF prerelease THEN "0." ELSE "")
        \o ToString(release_number + base - 1) \o extraver \o snapinfo

\* C7: for every commit with a result, release-complete is "0." (only when
\* prerelease is set), then the number release-number + base - 1, then the
\* extra-version and the snapshot tag that are not empty, each after a ".",
\* in that order; base is 1 when the spec file gives none or cannot be
\* queried.
C7_ReleaseCompleteFormat ==
    \A c \in Resolved :
        ReleaseComplete(c) = ExpectedReleaseComplete(c, ReleaseNumber(c))

\* Results with all flags set ("0.4.rc1.git5": release number 2, base 3),
\* with a two-digit base and a snapshot ("12.git5": release number 1, base
\* 12), and of a commit without a spec file ("1") are there.
C7_Witness ==
    /\ \E c \in Resolved : ReleaseNumber(c) = 2 /\ ReleaseComplete(c) = "0.4.rc1.git5"
    /\ \E c \in Resolved : ReleaseNumber(c) = 1 /\ ReleaseComplete(c) = "12.git5"
    /\ \E c \in Resolved :
          SpecFileName \notin DOMAIN tree[c] /\ ReleaseComplete(c) = "1"

\* The commit has the spec file, exactly one parent, and the changelog file
\* of that parent (or none, as the parent).
InheritsFromOneParent(c) ==
    /\ SpecFileName \in DOMAIN tree[c]
    /\ Len(parents[c]) = 1
    /\ TreeGet(tree[c], ChangelogFileName)
          = TreeGet(tree[parents[c][1]], ChangelogFileName)

\* The paths that differ between the tree of a commit and that of its
\* first parent.
ChangedPaths(c) ==
    {f \in (DOMAIN tree[c]) \cup (DOMAIN tree[parents[c][1]]) :
        \/ f \notin DOMAIN tree[c]
        \/ f \notin DOMAIN tree[parents[c][1]]
        \/ tree[c][f] # tree[parents[c][1]][f]}

\* C8: for a commit with the spec file, exactly one parent, an unchanged
\* changelog file and no changed path at all, the changelog is the parent's
\* changelog unchanged: no entry is added.
C8_NothingChangedInherits ==
    \A c \in Resolved :
        (InheritsFromOneParent(c) /\ ChangedPaths(c) = {}) =>
            /\ parents[c][1] \in Resolved
            /\ Changelog(c) = Changelog(parents[c][1])

\* A path that matches .gitignore, gating.yaml, sources or tests/*.
IsIgnoredPath(f) ==
    \/ f \in {<<".gitignore">>, <<"gating.yaml">>, <<"sources">>}
    \/ Len(f) >= 2 /\ f[1] = "tests"

\* C9: for a commit with the spec file, exactly one parent, an unchanged
\* changelog file and changed paths, all of which match an ignore pattern,
\* the changelog is the parent's changelog with no new entry.
C9_IgnoredChangesInherit ==
    \A c \in Resolved :
        (/\ InheritsFromOneParent(c)
         /\ ChangedPaths(c) # {}
         /\ \A f \in ChangedPaths(c) : IsIgnoredPath(f)) =>
            /\ parents[c][1] \in Resolved
            /\ Changelog(c) = Changelog(parents[c][1])

\* A commit that changes (adds) a file under tests/, gating.yaml and
\* .gitignore has inherited a changelog of one entry from its parent.
C9_Witness ==
    \E c \in Resolved :
        /\ InheritsFromOneParent(c)
        /\ {<<"tests", "smoke", "run.sh">>, <<"gating.yaml">>, <<".gitignore">>}
              \subseteq ChangedPaths(c)
        /\ \A f \in ChangedPaths(c) : IsIgnoredPath(f)
        /\ parents[c][1] \in Resolved
        /\ Len(Changelog(c)) = 1
        /\ Changelog(c)[1].commit_id = Oid(parents[c][1])

\* The first parent of a commit, in the order of its parent list, whose tree
\* is the commit's tree; 0 when no parent has it.
FirstSameTreeParent(c) ==
    IF \E i \in DOMAIN parents[c] : tree[parents[c][i]] = tree[c]
    THEN parents[c][CHOOSE i \in DOMAIN parents[c] :
                       /\ tree[parents[c][i]] = tree[c]
                       /\ \A j \in 1..(i - 1) : tree[parents[c][j]] # tree[c]]
    ELSE 0

\* C10: for a merge commit with the spec file and an unchanged changelog
\* file, where F is the first parent with the merge commit's tree, the
\* changelog is F's changelog, or F's changelog with one new entry for the
\* merge commit before it.
C10_MergeBuildsOnFollowedParent ==
    \A c \in Resolved :
        (/\ Len(parents[c]) >= 2
         /\ SpecFileName \in DOMAIN tree[c]
         /\ FirstSameTreeParent(c) # 0) =>
            LET F == FirstSameTreeParent(c)
            IN  /\ F \in Resolved
                /\ \/ Changelog(c) = Changelog(F)
                   \/ /\ Changelog(c) # <<>>
                      /\ Changelog(c)[1].commit_id = Oid(c)
                      /\ Tail(Changelog(c)) = Changelog(F)

\* The spec file is in the tree of the commit, and the changelog file of the
\* commit (None when it has none).
SpecPresent(c) == SpecFileName \in DOMAIN tree[c]
ChangelogFileOf(c) ==
    IF ChangelogFileName \in DOMAIN tree[c]
    THEN <<tree[c][ChangelogFileName]>> ELSE <<>>

\* The changelog file of the commit differs from that of every parent; for a
\* root commit: the file exists.
ChangelogDiffers(c) ==
    IF parents[c] = <<>> THEN ChangelogFileOf(c) # <<>>
    ELSE \A p \in Range(parents[c]) : ChangelogFileOf(c) # ChangelogFileOf(p)

\* A merge commit with the spec file, no parent with its tree, and a
\* changelog file that is not changed.
UnresolvableMerge(c) ==
    /\ Len(parents[c]) >= 2
    /\ SpecPresent(c)
    /\ FirstSameTreeParent(c) = 0
    /\ ~ChangelogDiffers(c)

\* The entry carries the error tag.
HasError(entry, tag) == "error" \in DOMAIN entry /\ entry.error = tag

\* The changelog visitor does not continue at an unresolvable merge, and the
\* changelog of one is a single entry, its own, tagged "unresolvable merge".
UnresolvableMergeFlagged ==
    \A c \in Discovered :
        UnresolvableMerge(c) =>
            /\ ~commit_coroutines_must_continue[c][2]
            /\ c \in Resolved =>
                  /\ Len(Changelog(c)) = 1
                  /\ Changelog(c)[1].commit_id = Oid(c)
                  /\ HasError(Changelog(c)[1], "unresolvable merge")

\* _run_on_history has returned and the head has a result.
Completed == pc = "done" /\ head \in Resolved

\* C11: a merge commit with the spec file, where no parent's tree is the
\* merge's tree and the changelog file is unchanged, gets a changelog of
\* exactly one entry tagged "unresolvable merge" with no entry of an
\* ancestor, its changelog visitor returns must_continue false, and the run
\* still completes with a result for the head.
C11_UnresolvableMergeCompletes ==
    /\ []UnresolvableMergeFlagged
    /\ (\E c \in Commits : UnresolvableMerge(c)) => <>Completed

\* The first line of a message is empty once the whitespace around it and
\* one leading "-" are taken away: all it holds besides whitespace is at most
\* one "-".
SubjectEmpty(m) ==
    SelectSeq(m, LAMBDA ch : ch \notin {" ", "\t"}) \in {<<>>, <<"-">>}

\* A root commit with the spec file, no changelog file and an empty subject.
RootWithEmptySubject(c) ==
    /\ parents[c] = <<>>
    /\ SpecPresent(c)
    /\ ChangelogFileOf(c) = <<>>
    /\ SubjectEmpty(message[c])

\* C12: a root commit with the spec file and no changelog file, whose first
\* message line is empty after stripping whitespace and one leading "-", gets
\* a changelog whose single entry is tagged "empty commit log subject" and
\* carries the placeholder text instead of a subject.
C12_EmptySubjectFlagged ==
    \A c \in Resolved :
        RootWithEmptySubject(c) =>
            /\ Len(Changelog(c)) = 1
            /\ Changelog(c)[1].commit_id = Oid(c)
            /\ HasError(Changelog(c)[1], "empty commit log subject")
            /\ Changelog(c)[1].subject
                  = "RPMAUTOSPEC: empty commit log subject after stripping"

\* A root commit whose message line is blanks around a "-" has the tagged
\* entry, and its child, whose message line is "--", has an entry with the
\* subject "-" before it.
C12_Witness ==
    \E c \in Resolved :
        /\ RootWithEmptySubject(c)
        /\ message[c] = MessageBlankDash
        /\ HasError(Changelog(c)[1], "empty commit log subject")
        /\ \E d \in Resolved :
              /\ parents[d] = <<c>>
              /\ message[d] = MessageDashes
              /\ Len(Changelog(d)) = 2
              /\ "subject_chars" \in DOMAIN Changelog(d)[1]
              /\ Changelog(d)[1].subject_chars = <<"-">>

\* C13: when the spec file is absent from the tree of a commit, the changelog
\* of the commit is the empty sequence and its changelog visitor returns
\* must_continue false, whatever the changelog file, the number of parents
\* and the parents' changelogs are; this case comes before the unresolvable
\* merge and the changed changelog file.
C13_NoSpecFileNoChangelog ==
    \A c \in Discovered :
        ~SpecPresent(c) =>
            /\ ~commit_coroutines_must_continue[c][2]
            /\ c \in Resolved => Changelog(c) = <<>>

\* A merge commit without spec file has a result; its parents both have a
\* changelog file, which it has not, and changelogs that are not empty.
C13_Witness ==
    \E c \in Resolved :
        /\ ~SpecPresent(c)
        /\ Len(parents[c]) = 2
        /\ ChangelogDiffers(c)
        /\ \A p \in Range(parents[c]) : p \in Resolved /\ Changelog(p) # <<>>
        /\ Changelog(c) = <<>>

\* The entry holds the text of the changelog file of the commit.
IsLiteralEntry(entry, c) ==
    /\ "literal" \in DOMAIN entry
    /\ ChangelogFileName \in DOMAIN tree[c]
    /\ entry.literal = tree[c][ChangelogFileName].data

\* C14: when the spec file is present and the changelog file of a commit
\* differs from that of every parent (for a root commit: the file exists),
\* the changelog of the commit is exactly one entry, none of a parent: it
\* holds the text of the file, or is tagged "changelog file removed" when
\* the file is gone; the changelog visitor returns must_continue false.
C14_ChangedChangelogStartsAnew ==
    \A c \in Discovered :
        (SpecPresent(c) /\ ChangelogDiffers(c)) =>
            /\ ~commit_coroutines_must_continue[c][2]
            /\ c \in Resolved =>
                  /\ Len(Changelog(c)) = 1
                  /\ Changelog(c)[1].commit_id = Oid(c)
                  /\ IF ChangelogFileOf(c) # <<>>
                     THEN IsLiteralEntry(Changelog(c)[1], c)
                     ELSE HasError(Changelog(c)[1], "changelog file removed")

\* A commit that adds the changelog file has the entry with its text, while
\* its parent has a changelog that is not empty; its child, which removes
\* the file, has the entry tagged "changelog file removed".
C14_Witness ==
    \E c \in Resolved :
        /\ SpecPresent(c) /\ ChangelogDiffers(c)
        /\ parents[c] # <<>>
        /\ \A p \in Range(parents[c]) : p \in Resolved /\ Changelog(p) # <<>>
        /\ IsLiteralEntry(Changelog(c)[1], c)
        /\ \E d \in Resolved :
              /\ parents[d] = <<c>>
              /\ SpecPresent(d) /\ ChangelogDiffers(d)
              /\ HasError(Changelog(d)[1], "changelog file removed")

\* C15: when the run completes, the result mapping has an entry for the head
\* and for exactly the commits that were discovered; with all_results false
\* the value returned is the head's entry, with all_results true it is the
\* whole mapping.
C15_RunReturnsResults ==
    pc = "done" =>
        /\ head \in Resolved
        /\ Resolved = Discovered
        /\ ~run(FALSE).raised
        /\ run(FALSE).value = visited_results[head]
        /\ run(FALSE).value["commit-id"] = Oid(head)
        /\ ~run(TRUE).raised
        /\ DOMAIN run(TRUE).value = Discovered
        /\ \A c \in Discovered :
              run(TRUE).value[c]["commit-id"] = Oid(c)

\* A run has completed that discovered more than two commits, a merge
\* commit among them, and left one commit of the history undiscovered.
C15_Witness ==
    /\ pc = "done"
    /\ Cardinality(Discovered) > 2
    /\ \E c \in Discovered : Len(parents[c]) = 2
    /\ Discovered # Commits

\* The children of a commit among the commits reachable from the head: the
\* commits that have it in their parent list.
ChildrenOf(c) ==
    {d \in Walk(parents) : \E i \in DOMAIN parents[d] : parents[d][i] = c}

\* The discovery pass looks at a commit, not the head, that has a child
\* which is not discovered.
ChildMissing ==
    /\ pc = "discover"
    /\ commit \notin Discovered
    /\ commit # head
    /\ ~(ChildrenOf(commit) \subseteq Discovered)

\* The commit is put at the end of branch_heads, the branch stops (and is
\* dropped if it is empty), and no phase 1 is run.
Requeued ==
    /\ branch_heads' = Append(branch_heads, commit)
    /\ pc' = "branch_heads"
    /\ branches' =
          (IF Last(branches) = <<>> THEN Front(branches) ELSE branches)
    /\ commit_coroutines' = commit_coroutines
    /\ commit_coroutines_must_continue' = commit_coroutines_must_continue
    /\ calls' = calls

\* C16: in the discovery pass a commit other than the head is discovered
\* only after every one of its children reachable from the head has been
\* discovered; when a child is not discovered yet, the commit is put back at
\* the end of branch_heads, the current branch stops there, and no phase 1
\* is run for the commit at that step.
C16_DiscoveredAfterChildren ==
    /\ [](\A c \in Discovered \ {head} : ChildrenOf(c) \subseteq Discovered)
    /\ [][ChildMissing => Requeued]_vars

\* A commit has just been put back at the end of branch_heads because a
\* child of it is not discovered, while the branch that led to it holds
\* commits and stays.
C16_Witness ==
    /\ pc = "branch_heads"
    /\ branch_heads # <<>>
    /\ Last(branch_heads) = commit
    /\ commit \notin Discovered
    /\ ~(ChildrenOf(commit) \subseteq Discovered)
    /\ branches # <<>> /\ Len(Last(branches)) >= 2
    /\ Cardinality(ChildrenOf(commit)) = 2

\* The children_must_continue that a visitor was given at a commit.
ChildrenMustContinue(c, v) == commit_coroutines[c][v].children_must_continue

\* What a visitor yielded at a commit in phase 1.
MustContinue(c, v) == commit_coroutines_must_continue[c][v]

\* C17: for every visitor and every discovered commit other than the head,
\* the children_must_continue given to the visitor's phase 1 at the commit is
\* the logical OR, over all children of the commit reachable from the head,
\* of the must_continue the visitor returned for the child; for the head it
\* is True for every visitor.
C17_ChildrenMustContinueIsOr ==
    \A c \in Discovered :
        LET children == IF c = head THEN {} ELSE ChildrenOf(c) \cap Discovered
        IN  \A v \in 1..2 :
                ChildrenMustContinue(c, v) =
                    (IF c = head THEN TRUE
                     ELSE \E child \in children : MustContinue(child, v))

\* A discovered commit has two children of which the release visitor wanted
\* to continue at one and not at the other, and was given True for the
\* release visitor and False for the changelog visitor.
C17_Witness ==
    \E c \in Discovered \ {head} :
        /\ \E d1, d2 \in ChildrenOf(c) :
              MustContinue(d1, 1) /\ ~MustContinue(d2, 1)
        /\ ChildrenMustContinue(c, 1)
        /\ ~ChildrenMustContinue(c, 2)

\* A merge commit that has no parent with its tree and whose changelog file
\* is not changed.
MergeUnresolvable(c) ==
    /\ Len(parents[c]) >= 2
    /\ FirstSameTreeParent(c) = 0
    /\ ~ChangelogDiffers(c)

\* C18: the changelog visitor's must_continue of phase 1 is true exactly
\* when the changelog file did not change, the merge is not unresolvable,
\* the spec file is present and children_must_continue is true; so once it
\* is false for every child of a commit, it is false for the commit too.
C18_ChangelogMustContinue ==
    /\ \A c \in Discovered :
          MustContinue(c, 2) <=>
              /\ ~ChangelogDiffers(c)
              /\ ~MergeUnresolvable(c)
              /\ SpecPresent(c)
              /\ ChildrenMustContinue(c, 2)
    /\ \A c \in Discovered \ {head} :
          (\A child \in ChildrenOf(c) \cap Discovered : ~MustContinue(child, 2))
              => ~MustContinue(c, 2)

\* The changelog visitor wants to continue at one commit; at another, which
\* has the spec file and an unchanged changelog file and is no unresolvable
\* merge, it does not, because it did not at the child.
C18_Witness ==
    /\ \E c \in Discovered : MustContinue(c, 2)
    /\ \E d \in Discovered :
          /\ ~ChangelogDiffers(d)
          /\ ~MergeUnresolvable(d)
          /\ SpecPresent(d)
          /\ ~ChildrenMustContinue(d, 2)
          /\ ~MustContinue(d, 2)

\* C19: the release visitor's must_continue of phase 1 is true when the
\* commit has no epoch-version (the spec file is missing or cannot be
\* queried), and otherwise exactly when at least one parent has the
\* epoch-version of the commit; it does not depend on children_must_continue.
C19_ReleaseMustContinue ==
    \A c \in Discovered :
        MustContinue(c, 1) <=>
            \/ IsNone(EpochVersionOf(c))
            \/ SameVersionParents(c) # {}

\* The release visitor wants to continue at a commit whose spec file cannot
\* be queried although it was given False for its children, and does not
\* want to continue at a commit with parents, none of its epoch-version.
C19_Witness ==
    /\ \E c \in Discovered :
          /\ SpecPresent(c)
          /\ IsNone(EpochVersionOf(c))
          /\ ~ChildrenMustContinue(c, 1)
          /\ MustContinue(c, 1)
    /\ \E e \in Discovered :
          /\ parents[e] # <<>>
          /\ ~IsNone(EpochVersionOf(e))
          /\ ~MustContinue(e, 1)

\* The header an entry of the commit must have, given the epoch-version and
\* the release-complete of the commit's result.
ExpectedHeader(c) ==
    "* " \o commit_date(c) \o " " \o commit_author(c) \o " "
    \o (IF visited_results[c]["epoch-version"] = <<>> THEN "None"
        ELSE visited_results[c]["epoch-version"][1])
    \o "-" \o visited_results[c]["release-complete"]

\* C20: when a commit is resolved, phase 2 of the visitors runs in the order
\* of the visitor list on the same partial result: the changelog visitor's
\* phase 2 runs after the release visitor's, the result has the fields of
\* both, and the header of the commit's own changelog entry is made of the
\* epoch-version and the release-complete of that result.
C20_Phase2InVisitorOrder ==
    /\ \A c \in Commits : calls[c].send[2] = 1 => calls[c].send[1] = 1
    /\ \A c \in Resolved :
          /\ DOMAIN visited_results[c] =
                {"commit-id", "epoch-version", "release-number",
                 "release-complete", "changelog"}
          /\ \A i \in DOMAIN Changelog(c) :
                (/\ Changelog(c)[i].commit_id = Oid(c)
                 /\ "header" \in DOMAIN Changelog(c)[i])
                    => Changelog(c)[i].header = ExpectedHeader(c)

\* The second commit of a version has a changelog of two entries; the
\* header of its own entry ends in the epoch-version and release-complete
\* "1.0-2" that the release visitor has set.
C20_Witness ==
    \E c \in Resolved :
        /\ ReleaseNumber(c) = 2
        /\ Len(Changelog(c)) = 2
        /\ Changelog(c)[1].commit_id = Oid(c)
        /\ "header" \in DOMAIN Changelog(c)[1]
        /\ Changelog(c)[1].header
              = "* day2 author2 <author2@example.org> 1.0-2"

\* Phase 1 is run at the commit in this step, and every visitor returns
\* must_continue false or the commit has no parents.
DiscoveredToStop ==
    /\ commit \notin Discovered
    /\ commit \in DOMAIN commit_coroutines'
    /\ \/ \A v \in 1..2 : ~commit_coroutines_must_continue'[commit][v]
       \/ parents[commit] = <<>>

\* The walker goes on with the next branch head and queues no commit.
BranchEnded ==
    /\ pc' = "branch_heads"
    /\ branch_heads' = branch_heads
    /\ commit' = commit

\* C21: when every visitor returns must_continue false at a commit, or the
\* commit has no parents, the walker follows none of the commit's parents
\* from it; so every discovered commit other than the head has a discovered
\* child at which a visitor returned must_continue true.
C21_BranchEndsWhenNoVisitorContinues ==
    /\ [][DiscoveredToStop => BranchEnded]_vars
    /\ [](\A c \in Discovered \ {head} :
             \E d \in ChildrenOf(c) \cap Discovered :
                 MustContinue(d, 1) \/ MustContinue(d, 2))

\* The discovery pass is over; it ended a branch at a commit with parents
\* where no visitor wanted to continue, and the first parent of that commit
\* was not discovered.
C21_Witness ==
    /\ pc = "branches"
    /\ \E c \in Discovered :
          /\ parents[c] # <<>>
          /\ ~MustContinue(c, 1) /\ ~MustContinue(c, 2)
          /\ parents[c][1] \notin Discovered
    /\ \E c \in Discovered \ {head} : parents[c] = <<>>

\* How often a commit occurs in the lists of a list of lists.
RECURSIVE Occurrences(_, _)
Occurrences(lists, c) ==
    IF lists = <<>> THEN 0
    ELSE Cardinality({i \in DOMAIN Head(lists) : Head(lists)[i] = c})
         + Occurrences(Tail(lists), c)

\* The lists are pairwise disjoint, every discovered commit is in exactly
\* one of them exactly once and no other commit is in any, and within a list
\* every commit is followed by its first parent.
BranchesPartitionDiscovered(lists) ==
    /\ \A i, j \in DOMAIN lists :
          i # j => Range(lists[i]) \cap Range(lists[j]) = {}
    /\ \A c \in Commits :
          Occurrences(lists, c) = (IF c \in Discovered THEN 1 ELSE 0)
    /\ \A i \in DOMAIN lists : \A k \in 1..(Len(lists[i]) - 1) :
          /\ parents[lists[i][k]] # <<>>
          /\ lists[i][k + 1] = parents[lists[i][k]][1]

\* C22: when the discovery pass ends, the lists in branches are pairwise
\* disjoint, every discovered commit is in exactly one list exactly once, and
\* within a list every commit is immediately followed by its first parent.
C22_BranchesDisjoint ==
    [][(pc = "branch_heads" /\ pc' = "branches")
          => BranchesPartitionDiscovered(branches)']_vars

\* The discovery pass has just ended with three lists, one of more than one
\* commit and one that is empty, and the resolution pass has not begun.
C22_Witness ==
    /\ pc = "branches"
    /\ Resolved = {} /\ branch = <<>>
    /\ BranchesPartitionDiscovered(branches)
    /\ Len(branches) = 3
    /\ \E i \in DOMAIN branches : Len(branches[i]) > 1
    /\ \E i \in DOMAIN branches : branches[i] = <<>>

\* C23: once a commit is resolved its result never changes: resolving
\* another commit, a child that is given the result as a parent result in
\* particular, leaves the stored result of every resolved commit as it is.
C23_ResultsNeverChange ==
    [][\A c \in Resolved :
          /\ c \in DOMAIN visited_results'
          /\ visited_results'[c] = visited_results[c]]_vars

\* A merge commit has been resolved after both its parents, whose results
\* it was given and whose changelogs are not empty.
C23_Witness ==
    \E d \in Resolved :
        /\ Len(parents[d]) = 2
        /\ \A p \in Range(parents[d]) : p \in Resolved /\ Changelog(p) # <<>>
        /\ Changelog(d) # <<>>

\* The number of commits on the longest path that starts at the commit, goes
\* from a commit to a parent of it, and stays among the commits that have
\* the epoch-version of the commit it starts at.
RECURSIVE LongestLineage(_)
LongestLineage(c) ==
    1 + SetMax({LongestLineage(p) : p \in SameVersionParents(c)})

\* C24: for every resolved commit, the release number is the number of
\* commits on the longest path from the commit through parents on which
\* every commit has the commit's epoch-version; it depends on the ancestry
\* of the commit only, not on the head of the run.
C24_ReleaseNumberIsLongestLineage ==
    \A c \in Resolved : ReleaseNumber(c) = LongestLineage(c)

\* A merge commit has the release number 3: its first parent is a root
\* commit with the release number 1, its second parent has the release
\* number 2, and both have its epoch-version, so that the paths from it have
\* two and three commits.
C24_Witness ==
    \E c \in Resolved :
        /\ Len(parents[c]) = 2
        /\ ~IsNone(EpochVersionOf(c))
        /\ SameVersionParents(c) = Range(parents[c])
        /\ parents[parents[c][1]] = <<>>
        /\ ReleaseNumber(parents[c][1]) = 1
        /\ ReleaseNumber(parents[c][2]) = 2
        /\ ReleaseNumber(c) = 3

\* A merge commit for which phase 2 of the changelog visitor takes the
\* branch that inherits: the spec file is present, the changelog file is not
\* changed and a parent has the tree of the commit.
MergeInherits(c) ==
    /\ Len(parents[c]) >= 2
    /\ SpecPresent(c)
    /\ ~ChangelogDiffers(c)
    /\ FirstSameTreeParent(c) # 0

\* C25: with the visitors (release_number_visitor, changelog_visitor), phase
\* 2 never fails on a missing parent result: whenever the inheriting branch
\* of the changelog visitor reads the commit-id of the parent results of a
\* merge commit, every parent of the commit has been discovered and
\* resolved, so no parent result is the empty placeholder.
C25_NoMissingParentResult ==
    /\ pc # "raised"
    /\ \A c \in Commits :
          (calls[c].send[2] = 1 /\ MergeInherits(c)) =>
              \A p \in Range(parents[c]) :
                  /\ p \in Discovered
                  /\ p \in Resolved
                  /\ "commit-id" \in DOMAIN visited_results[p]

\* A merge commit that inherits from its second parent has a result, and at
\* the merge commit the changelog visitor's children had not wanted to
\* continue.
C25_Witness ==
    \E c \in Resolved :
        /\ MergeInherits(c)
        /\ FirstSameTreeParent(c) = parents[c][2]
        /\ ~ChildrenMustContinue(c, 2)
        /\ Range(parents[c]) \subseteq Resolved

=============================================================================
